---- MODULE Spec2Model ----
(***************************************************************************)
(* Presence and relay registry of the rental application's server          *)
(* (src/server/server.js, lines 141-156): the process-wide Map from user   *)
(* id to socket id, the addUser and sendMsg handlers installed on every    *)
(* connection, and the receiveMsg events they emit; and the mail test      *)
(* route GET /api/test-email (server.js, lines 77-90) with sendEmail       *)
(* (src/server/utils/emailSender.js).                                      *)
(***************************************************************************)
EXTENDS Integers, Sequences, FiniteSets, TLC

VARIABLES
    onlineUsers,   \* global.onlineUsers: a Map, modelled as a function on the keys set so far
    chatSocket,    \* global.chatSocket: id of the socket that connected last
    status,        \* per socket id: "pending" (not yet connected), "open", "closed"
    inbox,         \* per socket id: the receiveMsg payloads emitted to it, in order
    lastEvent,     \* history: the event handled last, with what its handler saw and did
    registered,    \* history: the socket ids that have issued an addUser
    mail           \* per GET /api/test-email request: where its handler stands and what it did

vars == <<onlineUsers, chatSocket, status, inbox, lastEvent, registered, mail>>

(***************************************************************************)
(* Bounds of the model.                                                    *)
(***************************************************************************)
MaxConns == 2        \* sockets that connect during a run
MaxDeliveries == 2   \* receiveMsg events emitted during a run
MaxRequests == 3     \* GET /api/test-email requests during a run

(***************************************************************************)
(* Values.                                                                 *)
(***************************************************************************)
Undefined == "undefined"     \* JavaScript undefined: a missing argument, a missing field, a Map miss

ConnId(i) == "conn" \o ToString(i)

ConnIds == {ConnId(i) : i \in 1..MaxConns}

UserIds == {"alice", "bob"}

Payloads == {"hi", "x"}

\* what a client can pass with addUser: a user id, or nothing
AddUserInputs == UserIds \cup {Undefined}

\* an absent or null sendMsg payload
NullData == [type |-> "nullish"]

\* a sendMsg payload that is an object, given by its own fields
Obj(fields) == [type |-> "object", fields |-> fields]

\* what a client can pass with sendMsg: nothing, {message}, or {to, message}
SendMsgInputs ==
    {NullData}
        \cup {Obj([f \in {"message"} |-> p]) : p \in Payloads}
        \cup {Obj([f \in {"to", "message"} |-> IF f = "to" THEN u ELSE p]) :
                  u \in UserIds, p \in Payloads}

(***************************************************************************)
(* JavaScript semantics used by the handlers.                              *)
(***************************************************************************)
\* data.f : throws on undefined/null, yields undefined when the field is missing
Throws(data) == data.type = "nullish"

Prop(data, f) == IF f \in DOMAIN data.fields THEN data.fields[f] ELSE Undefined

\* Map.prototype.get
MapGet(m, k) == IF k \in DOMAIN m THEN m[k] ELSE Undefined

\* Map.prototype.set
MapSet(m, k, v) == [x \in DOMAIN m \cup {k} |-> IF x = k THEN v ELSE m[x]]

\* if (v) for the values a lookup can yield
Truthy(v) == v # Undefined /\ v # ""

(***************************************************************************)
(* Pure parts of the two handlers.                                         *)
(***************************************************************************)
\* variant: an existing entry is kept (set only when the key is absent)
addUser_firstWins(users, userId, socketId) ==
    IF userId \in DOMAIN users THEN users ELSE MapSet(users, userId, socketId)

\* variant: the arguments of onlineUsers.set are swapped
addUser_keyedBySocket(users, userId, socketId) == MapSet(users, socketId, userId)

\* variant: a socket answers to one user id only, its earlier entries are dropped
addUser_singleIdentity(users, userId, socketId) ==
    [x \in {k \in DOMAIN users : users[k] # socketId} \cup {userId} |->
        IF x = userId THEN socketId ELSE users[x]]

\* variant: the Map is built anew on every registration
addUser_fresh(users, userId, socketId) == [x \in {userId} |-> socketId]

\* socket.on("addUser"): the registry after the handler
addUser(users, userId, socketId) == MapSet(users, userId, socketId)

\* variant: socket.broadcast.emit(...), every open socket but the emitting one
EmitTo_broadcast(st, sender, room) == {c \in DOMAIN st : st[c] = "open" /\ c # sender}

\* variant: socket.emit(...), the emitting socket itself
EmitTo_sender(st, sender, room) == {c \in DOMAIN st : st[c] = "open" /\ c = sender}

\* variant: an empty room falls back to io.emit(...), every open socket
EmitTo_staleFallback(st, sender, room) ==
    IF \E c \in DOMAIN st : st[c] = "open" /\ c = room
    THEN {c \in DOMAIN st : st[c] = "open" /\ c = room /\ c # sender}
    ELSE {c \in DOMAIN st : st[c] = "open"}

\* variant: the room of a socket outlives its connection
EmitTo_ignoreStatus(st, sender, room) == {c \in DOMAIN st : c = room /\ c # sender}

\* socket.to(room).emit(...): the open sockets in the room, the emitting
\* socket excepted; every socket is alone in the room named by its own id
EmitTo(st, sender, room) == {c \in DOMAIN st : st[c] = "open" /\ c = room /\ c # sender}

\* variant: a lookup miss is broadcast instead of dropped
sendMsgRecipients_missBroadcast(users, st, sender, data) ==
    IF Throws(data) THEN {}
    ELSE LET sendUserSocketId == MapGet(users, Prop(data, "to"))
         IN  IF Truthy(sendUserSocketId) THEN EmitTo(st, sender, sendUserSocketId)
             ELSE {c \in DOMAIN st : st[c] = "open" /\ c # sender}

\* variant: only a socket that some user id is mapped to may relay
sendMsgRecipients_requireSender(users, st, sender, data) ==
    IF Throws(data) THEN {}
    ELSE LET sendUserSocketId == MapGet(users, Prop(data, "to"))
         IN  IF Truthy(sendUserSocketId) /\ (\E k \in DOMAIN users : users[k] = sender)
             THEN EmitTo(st, sender, sendUserSocketId) ELSE {}

\* socket.on("sendMsg"): the sockets that get a receiveMsg event
sendMsgRecipients(users, st, sender, data) ==
    IF Throws(data) THEN {}
    ELSE LET sendUserSocketId == MapGet(users, Prop(data, "to"))
         IN  IF Truthy(sendUserSocketId) THEN EmitTo(st, sender, sendUserSocketId) ELSE {}

\* socket.on("sendMsg"): how the handler ends
sendMsgOutcome(data) == IF Throws(data) THEN "TypeError" ELSE "ok"

\* the number of receiveMsg events emitted so far
Delivered == LET RECURSIVE Sum(_)
                 Sum(i) == IF i = 0 THEN 0 ELSE Len(inbox[ConnId(i)]) + Sum(i - 1)
             IN  Sum(MaxConns)

\* lastEvent: kind and conn name the event and the socket it arrived on;
\* userId / data are the handler's argument; prior is what the registry held
\* for the key when the handler started (sendUserSocketId in sendMsg);
\* rcpts are the sockets the handler emitted receiveMsg to; outcome is how
\* the handler ended; missed is, for an addUser(u), the message of the
\* sendMsg handled immediately before it when that one found no entry for u.
NoEvent == [kind |-> "none", conn |-> Undefined, userId |-> Undefined, data |-> NullData,
            prior |-> Undefined, rcpts |-> {}, outcome |-> "ok", missed |-> Undefined]

\* the message a sendMsg event left undelivered because userId had no entry
MissedFor(ev, userId) ==
    IF /\ ev.kind = "sendMsg"
       /\ ev.outcome = "ok"
       /\ Prop(ev.data, "to") = userId
       /\ ev.prior = Undefined
    THEN Prop(ev.data, "message")
    ELSE Undefined

(***************************************************************************)
(* The mail test route.                                                    *)
(***************************************************************************)
Requests == 1..MaxRequests

\* the errors sgMail.send rejects with: one carrying response.body, one without
MailErrors == {"ResponseError", "NetworkError"}

\* how the promise of sgMail.send(msg) settles
SendOutcomes == {[ok |-> TRUE, err |-> "none"]} \cup {[ok |-> FALSE, err |-> e] : e \in MailErrors}

NoRequest == [pc |-> "idle", send |-> [ok |-> FALSE, err |-> "none"],
              result |-> [settled |-> "pending", error |-> "none"],
              console |-> << >>, responses |-> << >>]

\* variant: the catch block logs and does not rethrow
sendEmail_swallow(outcome) == [settled |-> "resolved", error |-> "none"]

\* sendEmail: how its promise settles once sgMail.send has settled with outcome
sendEmail(outcome) ==
    IF outcome.ok THEN [settled |-> "resolved", error |-> "none"]
    ELSE [settled |-> "rejected", error |-> outcome.err]

\* sendEmail: what it writes to the console
sendEmailLog(outcome) ==
    IF outcome.ok THEN <<"Email sent">> ELSE <<"SENDGRID ERROR FULL">>

\* app.get("/api/test-email"): the response sent once sendEmail has settled with result
testEmailResponse(result) ==
    IF result.settled = "resolved"
    THEN [status |-> 200, body |-> "Email sent successfully!"]
    ELSE [status |-> 500, body |-> "Email failed: " \o result.error]

\* app.get("/api/test-email"): what the catch block writes to the console
testEmailLog(result) ==
    IF result.settled = "resolved" THEN << >> ELSE <<"SendGrid error:">>

(***************************************************************************)
(* The machine.                                                            *)
(***************************************************************************)
Init ==
    /\ onlineUsers = << >>
    /\ chatSocket = Undefined
    /\ status = [c \in ConnIds |-> "pending"]
    /\ inbox = [c \in ConnIds |-> << >>]
    /\ lastEvent = NoEvent
    /\ registered = {}
    /\ mail = [r \in Requests |-> NoRequest]

\* variant: the Map is created inside the connection handler
Connect_resetRegistry(i) ==
    /\ status[ConnId(i)] = "pending"
    /\ \A j \in 1..(i - 1) : status[ConnId(j)] # "pending"
    /\ status' = [status EXCEPT ![ConnId(i)] = "open"]
    /\ chatSocket' = ConnId(i)
    /\ onlineUsers' = << >>
    /\ lastEvent' = [NoEvent EXCEPT !.kind = "connection", !.conn = ConnId(i)]
    /\ UNCHANGED <<inbox, registered, mail>>

\* io.on("connection"): socket ids are fresh, handed out here in order
Connect(i) ==
    /\ status[ConnId(i)] = "pending"
    /\ \A j \in 1..(i - 1) : status[ConnId(j)] # "pending"
    /\ status' = [status EXCEPT ![ConnId(i)] = "open"]
    /\ chatSocket' = ConnId(i)
    /\ lastEvent' = [NoEvent EXCEPT !.kind = "connection", !.conn = ConnId(i)]
    /\ UNCHANGED <<onlineUsers, inbox, registered, mail>>

\* variant: a disconnect handler that purges the entries of the closed socket
Disconnect_purge(c) ==
    /\ status[c] = "open"
    /\ status' = [status EXCEPT ![c] = "closed"]
    /\ onlineUsers' = [k \in {x \in DOMAIN onlineUsers : onlineUsers[x] # c} |-> onlineUsers[k]]
    /\ lastEvent' = [NoEvent EXCEPT !.kind = "disconnect", !.conn = c]
    /\ UNCHANGED <<chatSocket, inbox, registered, mail>>

\* the transport closes; the source installs no handler for it
Disconnect(c) ==
    /\ status[c] = "open"
    /\ status' = [status EXCEPT ![c] = "closed"]
    /\ lastEvent' = [NoEvent EXCEPT !.kind = "disconnect", !.conn = c]
    /\ UNCHANGED <<onlineUsers, chatSocket, inbox, registered, mail>>

\* variant: addUser hands the registering socket the message just missed for userId
AddUser_flush(c, userId) ==
    /\ status[c] = "open"
    /\ onlineUsers' = addUser(onlineUsers, userId, c)
    /\ inbox' = IF MissedFor(lastEvent, userId) # Undefined
                THEN [inbox EXCEPT ![c] = Append(@, MissedFor(lastEvent, userId))]
                ELSE inbox
    /\ lastEvent' = [NoEvent EXCEPT !.kind = "addUser", !.conn = c, !.userId = userId,
                                    !.prior = MapGet(onlineUsers, userId),
                                    !.missed = MissedFor(lastEvent, userId)]
    /\ registered' = registered \cup {c}
    /\ UNCHANGED <<chatSocket, status, mail>>

\* socket.on("addUser", (userId) => ...) on socket c
AddUser(c, userId) ==
    /\ status[c] = "open"
    /\ onlineUsers' = addUser(onlineUsers, userId, c)
    /\ lastEvent' = [NoEvent EXCEPT !.kind = "addUser", !.conn = c, !.userId = userId,
                                    !.prior = MapGet(onlineUsers, userId),
                                    !.missed = MissedFor(lastEvent, userId)]
    /\ registered' = registered \cup {c}
    /\ UNCHANGED <<chatSocket, status, inbox, mail>>

\* variant: the newest message is put in front of what the recipient was sent before
SendMsg_prepend(c, data) ==
    /\ status[c] = "open"
    /\ LET rcpts == sendMsgRecipients(onlineUsers, status, c, data)
       IN  /\ Delivered + Cardinality(rcpts) <= MaxDeliveries
           /\ inbox' = [r \in ConnIds |->
                           IF r \in rcpts THEN <<Prop(data, "message")>> \o inbox[r]
                           ELSE inbox[r]]
           /\ lastEvent' = [NoEvent EXCEPT
                               !.kind = "sendMsg", !.conn = c, !.data = data,
                               !.prior = IF Throws(data) THEN Undefined
                                         ELSE MapGet(onlineUsers, Prop(data, "to")),
                               !.rcpts = rcpts,
                               !.outcome = sendMsgOutcome(data)]
    /\ UNCHANGED <<onlineUsers, chatSocket, status, registered, mail>>

\* variant: a relay that finds the recipient's socket closed deletes the entry
SendMsg_purgeStale(c, data) ==
    /\ status[c] = "open"
    /\ LET rcpts == sendMsgRecipients(onlineUsers, status, c, data)
           found == IF Throws(data) THEN Undefined ELSE MapGet(onlineUsers, Prop(data, "to"))
       IN  /\ Delivered + Cardinality(rcpts) <= MaxDeliveries
           /\ inbox' = [r \in ConnIds |->
                           IF r \in rcpts THEN Append(inbox[r], Prop(data, "message"))
                           ELSE inbox[r]]
           /\ onlineUsers' = IF found \in ConnIds /\ status[found] = "closed"
                             THEN [k \in DOMAIN onlineUsers \ {Prop(data, "to")} |-> onlineUsers[k]]
                             ELSE onlineUsers
           /\ lastEvent' = [NoEvent EXCEPT
                               !.kind = "sendMsg", !.conn = c, !.data = data,
                               !.prior = found,
                               !.rcpts = rcpts,
                               !.outcome = sendMsgOutcome(data)]
    /\ UNCHANGED <<chatSocket, status, registered, mail>>

\* socket.on("sendMsg", (data) => ...) on socket c
SendMsg(c, data) ==
    /\ status[c] = "open"
    /\ LET rcpts == sendMsgRecipients(onlineUsers, status, c, data)
       IN  /\ Delivered + Cardinality(rcpts) <= MaxDeliveries
           /\ inbox' = [r \in ConnIds |->
                           IF r \in rcpts THEN Append(inbox[r], Prop(data, "message"))
                           ELSE inbox[r]]
           /\ lastEvent' = [NoEvent EXCEPT
                               !.kind = "sendMsg", !.conn = c, !.data = data,
                               !.prior = IF Throws(data) THEN Undefined
                                         ELSE MapGet(onlineUsers, Prop(data, "to")),
                               !.rcpts = rcpts,
                               !.outcome = sendMsgOutcome(data)]
    /\ UNCHANGED <<onlineUsers, chatSocket, status, registered, mail>>

registryVars == <<onlineUsers, chatSocket, status, inbox, lastEvent, registered>>

\* GET /api/test-email arrives: the handler calls sendEmail, which awaits sgMail.send
TestEmailRequest(r) ==
    /\ mail[r].pc = "idle"
    /\ mail' = [mail EXCEPT ![r].pc = "sending"]
    /\ UNCHANGED registryVars

\* sgMail.send settles and sendEmail runs to its end
SendEmailSettles(r, outcome) ==
    /\ mail[r].pc = "sending"
    /\ mail' = [mail EXCEPT ![r].pc = "settled",
                            ![r].send = outcome,
                            ![r].result = sendEmail(outcome),
                            ![r].console = @ \o sendEmailLog(outcome)]
    /\ UNCHANGED registryVars

\* the route handler resumes after await sendEmail(...) and answers
TestEmailRespond(r) ==
    /\ mail[r].pc = "settled"
    /\ mail' = [mail EXCEPT ![r].pc = "responded",
                            ![r].console = @ \o testEmailLog(mail[r].result),
                            ![r].responses = Append(@, testEmailResponse(mail[r].result))]
    /\ UNCHANGED registryVars

NextMail ==
    \/ \E r \in Requests : TestEmailRequest(r)
    \/ \E r \in Requests, outcome \in SendOutcomes : SendEmailSettles(r, outcome)
    \/ \E r \in Requests : TestEmailRespond(r)

SpecMail == Init /\ [][NextMail]_vars

\* clients that always pass a user id with addUser
Next ==
    \/ \E i \in 1..MaxConns : Connect(i)
    \/ \E c \in ConnIds : Disconnect(c)
    \/ \E c \in ConnIds, userId \in UserIds : AddUser(c, userId)
    \/ \E c \in ConnIds, data \in SendMsgInputs : SendMsg(c, data)

Spec == Init /\ [][Next]_vars

\* clients that may also emit addUser with no argument
NextAny ==
    \/ \E i \in 1..MaxConns : Connect(i)
    \/ \E c \in ConnIds : Disconnect(c)
    \/ \E c \in ConnIds, userId \in AddUserInputs : AddUser(c, userId)
    \/ \E c \in ConnIds, data \in SendMsgInputs : SendMsg(c, data)

SpecAny == Init /\ [][NextAny]_vars

(***************************************************************************)
(* Properties.                                                             *)
(***************************************************************************)
\* the sendMsg event of the step's post-state carries an object payload
IsSend(ev) == ev.kind = "sendMsg" /\ ~Throws(ev.data)

To(ev) == Prop(ev.data, "to")

Message(ev) == Prop(ev.data, "message")

Changed(c) == inbox'[c] # inbox[c]

\* C1: the registry maps every user id registered so far to the socket of
\* the most recent addUser for it: an addUser(u) on c leaves u mapped to c
\* and every other registered user mapped as before, no other event changes
\* the registry, and a relay addressed to u reaches no socket but the one u
\* is mapped to when it is handled.
C1_LastRegistrationWins ==
    [][ /\ lastEvent'.kind = "addUser"
            => /\ lastEvent'.userId \in DOMAIN onlineUsers'
               /\ onlineUsers'[lastEvent'.userId] = lastEvent'.conn
               /\ \A v \in DOMAIN onlineUsers \ {lastEvent'.userId} :
                     /\ v \in DOMAIN onlineUsers'
                     /\ onlineUsers'[v] = onlineUsers[v]
               /\ DOMAIN onlineUsers' \subseteq DOMAIN onlineUsers \cup {lastEvent'.userId}
        /\ lastEvent'.kind # "addUser" => onlineUsers' = onlineUsers
        /\ \A c \in ConnIds :
              Changed(c) => /\ IsSend(lastEvent')
                            /\ c = MapGet(onlineUsers, To(lastEvent'))
      ]_vars

\* alice registered on conn1 and got "hi" there, then registered on conn2;
\* the relay of "x" to alice reached conn2 and not the still open conn1
C1_Witness ==
    /\ IsSend(lastEvent)
    /\ To(lastEvent) = "alice"
    /\ DOMAIN onlineUsers = {"alice"}
    /\ onlineUsers["alice"] = ConnId(2)
    /\ status[ConnId(1)] = "open"
    /\ lastEvent.rcpts = {ConnId(2)}
    /\ inbox[ConnId(1)] = <<"hi">>
    /\ inbox[ConnId(2)] = <<"x">>

\* C2: a sendMsg {to: u, message: p} from any socket, handled while u is
\* mapped to an open socket, appends exactly p to what that socket receives.
C2_RelayReachesMapped ==
    [][ IsSend(lastEvent')
          => LET t == MapGet(onlineUsers, To(lastEvent'))
             IN  (t \in ConnIds /\ status[t] = "open")
                    => inbox'[t] = Append(inbox[t], Message(lastEvent'))
      ]_vars

\* C3: a sendMsg whose payload is absent, or an object without `to`, ends
\* normally and delivers nothing.
C3_MalformedIsMiss ==
    (lastEvent.kind = "sendMsg"
        /\ (Throws(lastEvent.data) \/ "to" \notin DOMAIN lastEvent.data.fields))
      => (lastEvent.outcome = "ok" /\ lastEvent.rcpts = {})

\* C4: no addUser and no sendMsg handler ever raises.
C4_NeverRaises ==
    lastEvent.kind \in {"addUser", "sendMsg"} => lastEvent.outcome = "ok"

\* C5: a sendMsg addressed to a user id without a registry entry delivers
\* nothing to any socket, ends normally and leaves the registry unchanged.
C5_MissIsDropped ==
    [][ (/\ IsSend(lastEvent')
         /\ "to" \in DOMAIN lastEvent'.data.fields
         /\ To(lastEvent') \notin DOMAIN onlineUsers)
          => /\ inbox' = inbox
             /\ onlineUsers' = onlineUsers
             /\ lastEvent'.outcome = "ok"
      ]_vars

\* bob has no entry while alice has one and another socket is open: the
\* sendMsg to bob was handled and reached nobody
C5_Witness ==
    /\ IsSend(lastEvent)
    /\ To(lastEvent) = "bob"
    /\ DOMAIN onlineUsers = {"alice"}
    /\ lastEvent.rcpts = {}
    /\ lastEvent.outcome = "ok"
    /\ \E c \in ConnIds : c # lastEvent.conn /\ status[c] = "open"
    /\ \A c \in ConnIds : inbox[c] = << >>

\* C6: a step delivers to at most one socket, only while handling a sendMsg,
\* only to the socket the addressed user is mapped to at that moment, and
\* what it delivers is that sendMsg's message.
C6_Isolation ==
    [][ /\ Cardinality({c \in ConnIds : Changed(c)}) <= 1
        /\ \A c \in ConnIds :
              Changed(c) => /\ IsSend(lastEvent')
                            /\ To(lastEvent') \in DOMAIN onlineUsers
                            /\ onlineUsers[To(lastEvent')] = c
                            /\ inbox'[c] = Append(inbox[c], Message(lastEvent'))
      ]_vars

\* alice and bob sit on two open sockets, "hi" was sent to alice and "x" to
\* bob, and each socket holds only its own user's message
C6_Witness ==
    /\ IsSend(lastEvent)
    /\ DOMAIN onlineUsers = {"alice", "bob"}
    /\ onlineUsers["alice"] # onlineUsers["bob"]
    /\ status[onlineUsers["alice"]] = "open"
    /\ status[onlineUsers["bob"]] = "open"
    /\ To(lastEvent) = "bob"
    /\ inbox[onlineUsers["alice"]] = <<"hi">>
    /\ inbox[onlineUsers["bob"]] = <<"x">>

\* C7: with a mapped to open socket c1 and b to another open socket c2, a
\* sendMsg {to: b, message: p} arriving on c1 appends exactly p to what c2
\* receives and nothing to what c1 receives.
C7_ScenarioA ==
    [][ \A a, b \in DOMAIN onlineUsers :
          (/\ IsSend(lastEvent')
           /\ lastEvent'.conn = onlineUsers[a]
           /\ To(lastEvent') = b
           /\ onlineUsers[b] # onlineUsers[a]
           /\ status[onlineUsers[b]] = "open")
            => /\ inbox'[onlineUsers[b]] = Append(inbox[onlineUsers[b]], Message(lastEvent'))
               /\ inbox'[onlineUsers[a]] = inbox[onlineUsers[a]]
      ]_vars

\* alice on conn1, bob on conn2, conn1 sent {to: bob, message: "hi"}
C7_Witness ==
    /\ IsSend(lastEvent)
    /\ DOMAIN onlineUsers = {"alice", "bob"}
    /\ onlineUsers["alice"] = ConnId(1)
    /\ onlineUsers["bob"] = ConnId(2)
    /\ lastEvent.conn = ConnId(1)
    /\ To(lastEvent) = "bob"
    /\ Message(lastEvent) = "hi"
    /\ lastEvent.rcpts = {ConnId(2)}
    /\ inbox[ConnId(2)] = <<"hi">>
    /\ inbox[ConnId(1)] = << >>

\* C8: no step removes a registered user id, and a disconnect leaves the
\* registry as it was.
C8_EntriesPersist ==
    [][ /\ DOMAIN onlineUsers \subseteq DOMAIN onlineUsers'
        /\ lastEvent'.kind = "disconnect" => onlineUsers' = onlineUsers
      ]_vars

\* a socket has just closed and the registry still maps a user to it
C8_Witness ==
    /\ lastEvent.kind = "disconnect"
    /\ status[lastEvent.conn] = "closed"
    /\ \E u \in DOMAIN onlineUsers : onlineUsers[u] = lastEvent.conn

\* C9: a sendMsg addressed to a user whose registered socket has closed is
\* dropped: no socket receives anything and the handler ends normally.
C9_StaleIsDropped ==
    [][ IsSend(lastEvent')
          => LET t == MapGet(onlineUsers, To(lastEvent'))
             IN  (t \in ConnIds /\ status[t] = "closed")
                    => /\ inbox' = inbox
                       /\ lastEvent'.outcome = "ok"
      ]_vars

\* the addressed user's entry names a closed socket, and the sendMsg from
\* an open socket was handled without any delivery
C9_Witness ==
    /\ IsSend(lastEvent)
    /\ lastEvent.prior \in ConnIds
    /\ onlineUsers[To(lastEvent)] = lastEvent.prior
    /\ status[lastEvent.prior] = "closed"
    /\ status[lastEvent.conn] = "open"
    /\ lastEvent.rcpts = {}
    /\ lastEvent.outcome = "ok"
    /\ \A c \in ConnIds : inbox[c] = << >>

\* C10: nothing is buffered: a socket receives a message only in the step
\* that handles the sendMsg carrying it, and only if the addressed user has
\* an entry in that step; an addUser delivers nothing.
C10_NoBuffering ==
    [][ /\ \A c \in ConnIds :
              Changed(c) => /\ IsSend(lastEvent')
                            /\ To(lastEvent') \in DOMAIN onlineUsers
                            /\ Len(inbox'[c]) = Len(inbox[c]) + 1
        /\ lastEvent'.kind = "addUser" => inbox' = inbox
      ]_vars

\* a message to u was dropped for want of an entry, then u registered on a
\* socket, and that socket has received nothing
C10_Witness ==
    /\ lastEvent.kind = "addUser"
    /\ lastEvent.missed \in Payloads
    /\ lastEvent.prior = Undefined
    /\ onlineUsers[lastEvent.userId] = lastEvent.conn
    /\ inbox[lastEvent.conn] = << >>

\* C11: what a socket has been sent is only ever extended at its end, by the
\* message of the sendMsg being handled: a message relayed earlier stays
\* before one relayed later, and the relay happens within the handling step.
C11_RelayInOrder ==
    [][ \A c \in ConnIds :
          /\ Len(inbox'[c]) >= Len(inbox[c])
          /\ SubSeq(inbox'[c], 1, Len(inbox[c])) = inbox[c]
          /\ Changed(c) => /\ lastEvent'.kind = "sendMsg"
                            /\ Len(inbox'[c]) = Len(inbox[c]) + 1
                            /\ inbox'[c][Len(inbox'[c])] = Message(lastEvent')
      ]_vars

\* conn1 sent "hi" and then "x" to alice, who sits on conn2 (the only socket
\* that can reach conn2 is conn1): conn2 was sent "hi" before "x"
C11_Witness ==
    /\ IsSend(lastEvent)
    /\ lastEvent.conn = ConnId(1)
    /\ To(lastEvent) = "alice"
    /\ Message(lastEvent) = "x"
    /\ DOMAIN onlineUsers = {"alice"}
    /\ onlineUsers["alice"] = ConnId(2)
    /\ registered = {ConnId(2)}
    /\ inbox[ConnId(2)] = <<"hi", "x">>

\* C12: an addUser on socket c keeps every entry already mapped to c, so c
\* can be mapped from several user ids, and a sendMsg from another socket
\* addressed to any of them is delivered to c.
C12_SeveralIdentities ==
    [][ /\ lastEvent'.kind = "addUser"
            => \A k \in DOMAIN onlineUsers :
                  onlineUsers[k] = lastEvent'.conn
                     => (k \in DOMAIN onlineUsers' /\ onlineUsers'[k] = lastEvent'.conn)
        /\ IsSend(lastEvent')
            => \A u1, u2 \in DOMAIN onlineUsers :
                  (/\ u1 # u2
                   /\ onlineUsers[u1] = onlineUsers[u2]
                   /\ status[onlineUsers[u1]] = "open"
                   /\ lastEvent'.conn # onlineUsers[u1]
                   /\ To(lastEvent') \in {u1, u2})
                    => inbox'[onlineUsers[u1]]
                          = Append(inbox[onlineUsers[u1]], Message(lastEvent'))
      ]_vars

\* conn1 registered as alice and as bob, and conn2's messages went to conn1
C12_Witness ==
    /\ IsSend(lastEvent)
    /\ lastEvent.conn = ConnId(2)
    /\ To(lastEvent) = "bob"
    /\ DOMAIN onlineUsers = {"alice", "bob"}
    /\ onlineUsers["alice"] = ConnId(1)
    /\ onlineUsers["bob"] = ConnId(1)
    /\ registered = {ConnId(1)}
    /\ lastEvent.rcpts = {ConnId(1)}
    /\ Len(inbox[ConnId(1)]) = 2

\* the lifecycle state of a socket as the program holds it, as a rank: a
\* socket is Connected-Registered while the registry maps some user id to it
Lifecycle(st, users, c) ==
    IF st[c] = "pending" THEN 0                                \* no channel yet
    ELSE IF st[c] = "closed" THEN 3                            \* Disconnected
    ELSE IF \E k \in DOMAIN users : users[k] = c THEN 2        \* Connected-Registered
    ELSE 1                                                     \* Connected-Unregistered

\* C13 as stated: a socket starts Connected-Unregistered, is
\* Connected-Registered after its addUser, never moves backwards, and
\* Disconnected is terminal: no addUser or sendMsg of a closed socket is
\* handled and a closed socket is sent nothing.
C13_NeverBackwards ==
    [][ \A c \in ConnIds :
          /\ Lifecycle(status', onlineUsers', c) >= Lifecycle(status, onlineUsers, c)
          /\ (lastEvent'.kind = "connection" /\ lastEvent'.conn = c /\ status[c] = "pending")
                => Lifecycle(status', onlineUsers', c) = 1
          /\ (lastEvent'.kind = "addUser" /\ lastEvent'.conn = c)
                => (status[c] = "open" /\ Lifecycle(status', onlineUsers', c) = 2)
          /\ (lastEvent'.kind = "sendMsg" /\ lastEvent'.conn = c) => status[c] = "open"
          /\ status[c] = "closed" => (status'[c] = "closed" /\ inbox'[c] = inbox[c])
      ]_vars

\* C13 (amended): a socket starts Connected-Unregistered and is
\* Connected-Registered after its own addUser; the only step backwards is
\* from Connected-Registered to Connected-Unregistered, taken when another
\* socket's addUser overwrites an entry that was mapped to it; Disconnected
\* is terminal: no addUser or sendMsg of a closed socket is handled and a
\* closed socket is sent nothing.
C13_Lifecycle ==
    [][ \A c \in ConnIds :
          /\ Lifecycle(status', onlineUsers', c) < Lifecycle(status, onlineUsers, c)
                => /\ Lifecycle(status, onlineUsers, c) = 2
                   /\ Lifecycle(status', onlineUsers', c) = 1
                   /\ lastEvent'.kind = "addUser"
                   /\ lastEvent'.conn # c
                   /\ MapGet(onlineUsers, lastEvent'.userId) = c
          /\ (lastEvent'.kind = "connection" /\ lastEvent'.conn = c /\ status[c] = "pending")
                => Lifecycle(status', onlineUsers', c) = 1
          /\ (lastEvent'.kind = "addUser" /\ lastEvent'.conn = c)
                => (status[c] = "open" /\ Lifecycle(status', onlineUsers', c) = 2)
          /\ (lastEvent'.kind = "sendMsg" /\ lastEvent'.conn = c) => status[c] = "open"
          /\ status[c] = "closed" => (status'[c] = "closed" /\ inbox'[c] = inbox[c])
      ]_vars

\* conn1 registered as alice, then conn2 registered as alice: the open conn1
\* is back in Connected-Unregistered and conn2 is Connected-Registered
C13_Witness ==
    /\ lastEvent.kind = "addUser"
    /\ lastEvent.conn = ConnId(2)
    /\ lastEvent.prior = ConnId(1)
    /\ status[ConnId(1)] = "open"
    /\ ConnId(1) \in registered
    /\ Lifecycle(status, onlineUsers, ConnId(1)) = 1
    /\ Lifecycle(status, onlineUsers, ConnId(2)) = 2

\* C14: an addUser(u) on c changes the entry of u and nothing else: the other
\* entries keep their values, no socket is sent anything, and the same
\* addUser again would leave the registry as it is.
C14_AddUserFrame ==
    [][ lastEvent'.kind = "addUser"
          => /\ DOMAIN onlineUsers' = DOMAIN onlineUsers \cup {lastEvent'.userId}
             /\ \A k \in DOMAIN onlineUsers \ {lastEvent'.userId} :
                   onlineUsers'[k] = onlineUsers[k]
             /\ \A c \in ConnIds : Len(inbox'[c]) = Len(inbox[c])
             /\ addUser(onlineUsers', lastEvent'.userId, lastEvent'.conn) = onlineUsers'
      ]_vars

\* the same addUser was repeated on the socket the user was already mapped
\* to, while the other user stays mapped to the other socket
C14_Witness ==
    /\ lastEvent.kind = "addUser"
    /\ lastEvent.prior = lastEvent.conn
    /\ DOMAIN onlineUsers = {"alice", "bob"}
    /\ onlineUsers[lastEvent.userId] = lastEvent.conn
    /\ \E k \in DOMAIN onlineUsers : onlineUsers[k] # lastEvent.conn

\* C15: handling a sendMsg, whatever its payload and whether or not it
\* delivers, leaves the registry exactly as it was.
C15_SendMsgFrame ==
    [][ lastEvent'.kind = "sendMsg" => onlineUsers' = onlineUsers ]_vars

\* sendMsg events were handled with a delivery behind them and the last one
\* found a closed socket; both entries are still there
C15_Witness ==
    /\ IsSend(lastEvent)
    /\ DOMAIN onlineUsers = {"alice", "bob"}
    /\ lastEvent.prior \in ConnIds
    /\ status[lastEvent.prior] = "closed"
    /\ onlineUsers[To(lastEvent)] = lastEvent.prior
    /\ Delivered >= 1

\* C16: the registry starts empty, and no connection, disconnect or sendMsg
\* event replaces or clears it: once it has an entry it is never empty again
\* and only an addUser changes it.
C16_SingleRegistry ==
    /\ onlineUsers = << >>
    /\ \A c \in ConnIds : status[c] = "pending"
    /\ [][ /\ (lastEvent'.kind \in {"connection", "disconnect", "sendMsg"})
                  => (onlineUsers' = onlineUsers)
           /\ (onlineUsers # << >>) => (onlineUsers' # << >>)
         ]_vars

\* a socket connected while the registry held an entry, and the entry is
\* still there
C16_Witness ==
    /\ lastEvent.kind = "connection"
    /\ lastEvent.conn = ConnId(2)
    /\ DOMAIN onlineUsers = {"alice"}
    /\ onlineUsers["alice"] = ConnId(1)

\* C17: a sendMsg from a socket that never issued an addUser is relayed like
\* any other: the socket mapped from `to`, if open, is sent exactly
\* data.message, with nothing about the sender added.
C17_UnregisteredSender ==
    [][ (IsSend(lastEvent') /\ lastEvent'.conn \notin registered)
          => LET t == MapGet(onlineUsers, To(lastEvent'))
             IN  /\ \A c \in ConnIds \ {t} : inbox'[c] = inbox[c]
                 /\ (t \in ConnIds /\ status[t] = "open")
                       => inbox'[t] = Append(inbox[t], Message(lastEvent'))
      ]_vars

\* conn2 never registered and its sendMsg reached alice on conn1
C17_Witness ==
    /\ IsSend(lastEvent)
    /\ lastEvent.conn = ConnId(2)
    /\ registered = {ConnId(1)}
    /\ \A k \in DOMAIN onlineUsers : onlineUsers[k] = ConnId(1)
    /\ lastEvent.rcpts = {ConnId(1)}
    /\ inbox[ConnId(1)] = <<Message(lastEvent)>>

\* C18: sendEmail resolves only when sgMail.send succeeded and otherwise
\* rejects with the error of the send, after logging; a request to
\* /api/test-email is answered at most once, and once its handler has run
\* exactly once: with 200 only if the send succeeded and with 500 otherwise.
C18_MailFailureSurfaces ==
    \A r \in Requests :
        LET m == mail[r]
        IN  /\ Len(m.responses) <= 1
            /\ (m.pc \in {"idle", "sending", "settled"}) => (m.responses = << >>)
            /\ (m.pc \in {"settled", "responded"})
                  => /\ (m.result.settled = "resolved") => m.send.ok
                     /\ (~m.send.ok) => (/\ m.result.settled = "rejected"
                                         /\ m.result.error = m.send.err
                                         /\ Len(m.console) >= 1)
            /\ (m.pc = "responded")
                  => /\ Len(m.responses) = 1
                     /\ (m.responses[1].status = 200) => m.send.ok
                     /\ (~m.send.ok) => (m.responses[1].status = 500)

\* one request was answered 200 after a successful send and another 500
\* after a send that was rejected
C18_Witness ==
    \E r1, r2 \in Requests :
        /\ mail[r1].pc = "responded" /\ mail[r1].send.ok
        /\ mail[r1].responses[1].status = 200
        /\ mail[r2].pc = "responded" /\ ~mail[r2].send.ok
        /\ mail[r2].send.err = "ResponseError"
        /\ mail[r2].responses[1].status = 500

TypeOK ==
    /\ DOMAIN onlineUsers \subseteq AddUserInputs
    /\ \A k \in DOMAIN onlineUsers : onlineUsers[k] \in ConnIds
    /\ chatSocket \in ConnIds \cup {Undefined}
    /\ status \in [ConnIds -> {"pending", "open", "closed"}]
    /\ \A c \in ConnIds : \A i \in 1..Len(inbox[c]) : inbox[c][i] \in Payloads \cup {Undefined}
    /\ registered \subseteq ConnIds
    /\ \A r \in Requests : mail[r].pc \in {"idle", "sending", "settled", "responded"}
====
